---- MODULE Spec2Model ----
(***************************************************************************)
(* XLMRobertaForTokenClassification (chapter-4.ipynb): a pretrained        *)
(* encoder body with a dropout + linear token-classification head, and     *)
(* its forward pass with the optional cross-entropy loss.                  *)
(*                                                                         *)
(* Tensors are sequences of rows; all values are integers.  A scalar loss  *)
(* is the exact fraction <<sum, count>> (the mean sum/count); <<0, 0>> is  *)
(* the 0/0 that torch reports as nan.  Python's None is the empty tuple.   *)
(* Logarithms are taken in base 2 and rounded up to an integer.            *)
(***************************************************************************)
EXTENDS Integers, Sequences, FiniteSets, TLC

VARIABLES config, roberta, classifier, training, out, calls,
          tp_pc, query, iter, clock, slow, latencies, invocations, timing,
          cs_pc, files, files0, state_dict, size_result,
          px_pc, num_rows, lang_i, ds, split_i, panx_ch, first_run

\* The token-classification model and the results of its forward passes.
modelVars == <<config, roberta, classifier, training, out, calls>>

\* PerformanceBenchmark.time_pipeline (chapter 8): its position, its query,
\* its loop index, the perf_counter clock, the slow invocations so far, the
\* latency list, the pipeline's invocations in order, the returned statistics.
timeVars == <<tp_pc, query, iter, clock, slow, latencies, invocations, timing>>

\* PerformanceBenchmark.compute_size (chapter 8): its position, the working
\* directory now and when the call began, the serialised state dict, and
\* the returned record.
sizeVars == <<cs_pc, files, files0, state_dict, size_result>>

\* The downsampling loop of chapter 4: its position, the row count of every
\* split of a PAN-X corpus, the loop's place in zip(langs, fracs), the loaded
\* corpus, the place in its splits, panx_ch, and the result of an earlier run.
panxVars == <<px_pc, num_rows, lang_i, ds, split_i, panx_ch, first_run>>

otherVars == <<timeVars, sizeVars, panxVars>>

vars == <<modelVars, otherVars>>

None == <<>>

\* nn.CrossEntropyLoss() is built with its default ignore_index.
ignore_index == -100

\* Largest number of elements of one input tensor of a batch.
MaxTokens == 2

\* Longest logged sequence of forward invocations.
MaxCalls == 3

\* Logged invocations of the labelled end-to-end scenario.
MaxScenarioCalls == 2

\* Pipeline invocations of one time_pipeline call that run slower than usual.
MaxSlow == 1

\* Rows of the largest split of a PAN-X corpus.
MaxRows == 17

(***************************************************************************)
(* Tensor helpers.                                                         *)
(***************************************************************************)
Tensor2(S, r, c) == [1..r -> [1..c -> S]]

Shape2(t) == <<Len(t), Len(t[1])>>

Shape3(t) == <<Len(t), Len(t[1]), Len(t[1][1])>>

RECURSIVE SumTo(_, _)
SumTo(f, n) == IF n = 0 THEN 0 ELSE f[n] + SumTo(f, n - 1)

RECURSIVE Flatten(_, _)
\* t.view(-1, ...) of the first n rows: the rows of t laid end to end.
Flatten(t, n) == IF n = 0 THEN <<>> ELSE Flatten(t, n - 1) \o t[n]

View(t) == Flatten(t, Len(t))

Pow2(n) == 2 ^ n

RECURSIVE CeilLog2(_)
CeilLog2(n) == IF n <= 1 THEN 0 ELSE 1 + CeilLog2((n + 1) \div 2)

Min(S) == CHOOSE m \in S : \A x \in S : m <= x

(***************************************************************************)
(* Configurations and parameters.  hidden_dropout_prob is in percent.      *)
(***************************************************************************)
Configs ==
    {[num_labels |-> 2, hidden_size |-> 1, hidden_dropout_prob |-> p] : p \in {0, 50}}

ScenarioConfigs ==
    {[num_labels |-> 7, hidden_size |-> 1, hidden_dropout_prob |-> p] : p \in {0, 50}}

\* The checkpoint the body is loaded from.
Pretrained == 1

\* Values a classifier weight takes (init_weights draws them at random).
WeightValues == {-1, 1}

ClassifierInits(cfg) ==
    {[weight |-> [k \in 1..cfg.num_labels |-> [d \in 1..cfg.hidden_size |-> IF k % 2 = 1 THEN w ELSE 0 - w]],
      bias |-> [k \in 1..cfg.num_labels |-> 0]] : w \in WeightValues}

(***************************************************************************)
(* The encoder body, RobertaModel(config, add_pooling_layer=False).        *)
(* It is a library component: a deterministic function of its weights and *)
(* inputs that gives every token a hidden vector depending on the token,   *)
(* its position and the attended tokens of its row.                        *)
(***************************************************************************)
Ones(ids) == [b \in 1..Len(ids) |-> [i \in 1..Len(ids[b]) |-> 1]]

Attended(ids, mask, b) == SumTo([j \in 1..Len(ids[b]) |-> mask[b][j] * ids[b][j]], Len(ids[b]))

Embeddings(w, ids, H) ==
    [b \in 1..Len(ids) |-> [i \in 1..Len(ids[b]) |->
        [d \in 1..H |-> ((w * ids[b][i] + i + d) % 3) - 1]]]

LastHiddenState(w, ids, mask, H) ==
    [b \in 1..Len(ids) |-> [i \in 1..Len(ids[b]) |->
        [d \in 1..H |-> ((w * ids[b][i] + Attended(ids, mask, b) + i + d) % 3) - 1]]]

RobertaModel(w, H, input_ids, attention_mask, token_type_ids, kwargs) ==
    LET mask == IF attention_mask = None THEN Ones(input_ids) ELSE attention_mask
        last == LastHiddenState(w, input_ids, mask, H)
    IN [last_hidden_state |-> last,
        pooler_output |-> None,
        hidden_states |-> IF kwargs.output_hidden_states
                          THEN <<Embeddings(w, input_ids, H), last>> ELSE None,
        attentions |-> IF kwargs.output_attentions
                       THEN <<[b \in 1..Len(input_ids) |-> [i \in 1..Len(input_ids[b]) |-> mask[b]]]>>
                       ELSE None]

\* Faulty variant: only the first token's vector of every row (a pooled summary).
SequenceOutputPooled(outputs) ==
    [b \in 1..Len(outputs.last_hidden_state) |-> <<outputs.last_hidden_state[b][1]>>]

\* outputs[0]: the full sequence of per-token hidden vectors.
SequenceOutput(outputs) == outputs.last_hidden_state

(***************************************************************************)
(* The head: nn.Dropout(config.hidden_dropout_prob) and nn.Linear.         *)
(***************************************************************************)
\* Faulty variant: dropout that ignores the module's training flag.
DropoutAlwaysTraining(p, train) == p > 0

DropoutActive(p, train) == train /\ p > 0

\* The tensors dropout can return for x: x itself when inactive, otherwise
\* every element is either zeroed or scaled by 1/(1-p).
Dropout(p, train, x) ==
    IF ~DropoutActive(p, train) THEN {x}
    ELSE {[b \in 1..Len(x) |-> [i \in 1..Len(x[b]) |-> [d \in 1..Len(x[b][i]) |->
              IF keep[b][i][d] THEN (x[b][i][d] * 100) \div (100 - p) ELSE 0]]] :
          keep \in [1..Len(x) -> [1..Len(x[1]) -> [1..Len(x[1][1]) -> BOOLEAN]]]}

Linear(cl, x) ==
    [b \in 1..Len(x) |-> [i \in 1..Len(x[b]) |-> [k \in 1..Len(cl.weight) |->
        SumTo([d \in 1..Len(cl.weight[k]) |-> cl.weight[k][d] * x[b][i][d]], Len(cl.weight[k]))
        + cl.bias[k]]]]

(***************************************************************************)
(* nn.CrossEntropyLoss(): log-softmax, negative log-likelihood of the      *)
(* target class, mean over the targets that are not ignore_index.          *)
(***************************************************************************)
LogSumExp(z) ==
    LET m == Min({z[k] : k \in 1..Len(z)})
    IN m + CeilLog2(SumTo([k \in 1..Len(z) |-> Pow2(z[k] - m)], Len(z)))

\* Faulty variant: the negative score of the target, without the log-softmax.
NllWithoutLogSoftmax(z, y) == 0 - z[y + 1]

\* Loss of one position with class scores z and target class y (0-based).
Nll(z, y) == LogSumExp(z) - z[y + 1]

RECURSIVE NllSumCountsIgnored(_, _, _)
\* Faulty variant: ignored targets add nothing to the sum but count in the mean.
NllSumCountsIgnored(input, target, n) ==
    IF n = 0 THEN <<0, 0>>
    ELSE LET r == NllSumCountsIgnored(input, target, n - 1)
         IN IF target[n] = ignore_index THEN <<r[1], r[2] + 1>>
            ELSE <<r[1] + Nll(input[n], target[n]), r[2] + 1>>

RECURSIVE NllSumClampsIgnored(_, _, _)
\* Faulty variant: an ignored target is scored as class 0 instead of skipped.
NllSumClampsIgnored(input, target, n) ==
    IF n = 0 THEN <<0, 0>>
    ELSE LET r == NllSumClampsIgnored(input, target, n - 1)
             y == IF target[n] = ignore_index THEN 0 ELSE target[n]
         IN <<r[1] + Nll(input[n], y), r[2] + 1>>

RECURSIVE NllSum(_, _, _)
NllSum(input, target, n) ==
    IF n = 0 THEN <<0, 0>>
    ELSE LET r == NllSum(input, target, n - 1)
         IN IF target[n] = ignore_index THEN r
            ELSE <<r[1] + Nll(input[n], target[n]), r[2] + 1>>

\* [raised, value]: raises when the batch sizes of input and target differ.
CrossEntropyLoss(input, target) ==
    IF Len(input) # Len(target)
    THEN [raised |-> TRUE, value |-> None]
    ELSE [raised |-> FALSE, value |-> NllSum(input, target, Len(input))]

\* Faulty variant: the loss is never computed.
CalculateLossSkipped(logits, labels) == [raised |-> FALSE, value |-> None]

\* The "Calculate losses" block of forward.
CalculateLoss(logits, labels) ==
    IF labels # None
    THEN CrossEntropyLoss(View(logits), View(labels))
    ELSE [raised |-> FALSE, value |-> None]

\* Faulty variant: the encoder's two auxiliary outputs end up in each other's field.
TokenClassifierOutputSwapped(loss, logits, hidden_states, attentions) ==
    [loss |-> loss, logits |-> logits, hidden_states |-> attentions, attentions |-> hidden_states]

TokenClassifierOutput(loss, logits, hidden_states, attentions) ==
    [loss |-> loss, logits |-> logits, hidden_states |-> hidden_states, attentions |-> attentions]

(***************************************************************************)
(* forward                                                                 *)
(***************************************************************************)
NoRecord == [loss |-> None, logits |-> None, hidden_states |-> None, attentions |-> None]

NoArgs ==
    [input_ids |-> None, attention_mask |-> None, token_type_ids |-> None, labels |-> None,
     kwargs |-> [output_hidden_states |-> FALSE, output_attentions |-> FALSE]]

NoCall ==
    [status |-> "none", args |-> NoArgs, training |-> FALSE, params |-> None, record |-> NoRecord]

\* A finished invocation: how it ended, what it was given, the mode and
\* parameters it ran with, and the output record it returned.
Call(status, args, record) ==
    [status |-> status, args |-> args, training |-> training,
     params |-> <<roberta, classifier>>, record |-> record]

\* What forward(args) can end in, for the current parameters and mode.
ForwardResults(args) ==
    LET outputs == RobertaModel(roberta, config.hidden_size, args.input_ids,
                                args.attention_mask, args.token_type_ids, args.kwargs)
    IN {LET logits == Linear(classifier, sequence_output)
            loss == CalculateLoss(logits, args.labels)
        IN IF loss.raised
           THEN Call("raised", args, NoRecord)
           ELSE Call("returned", args,
                     TokenClassifierOutput(loss.value, logits,
                                           outputs.hidden_states, outputs.attentions))
        : sequence_output \in Dropout(config.hidden_dropout_prob, training,
                                      SequenceOutput(outputs))}

(***************************************************************************)
(* Input batches.                                                          *)
(***************************************************************************)
Shapes == {s \in (1..MaxTokens) \X (1..MaxTokens) : s[1] * s[2] <= MaxTokens}

TokenIds == {5, 7}

Kwargs == [output_hidden_states : BOOLEAN, output_attentions : BOOLEAN]

Labels(cfg) == {ignore_index} \cup (0..(cfg.num_labels - 1))

\* XLM-R has a single token type, so token_type_ids is left at its default.
Batches(cfg) ==
    UNION {[input_ids : Tensor2(TokenIds, s[1], s[2]),
            attention_mask : {None} \cup Tensor2({0, 1}, s[1], s[2]),
            token_type_ids : {None},
            labels : {None} \cup UNION {Tensor2(Labels(cfg), t[1], t[2]) : t \in Shapes},
            kwargs : Kwargs] : s \in Shapes}

\* compute_size is not running; the working directory is empty.
SizeIdle ==
    /\ cs_pc = "idle"
    /\ files = [f \in {"model.pt", "notes.txt"} |-> None]
    /\ files0 = [f \in {"model.pt", "notes.txt"} |-> None]
    /\ state_dict = None
    /\ size_result = None

\* The downsampling cell has not run.
PanxIdle ==
    /\ px_pc = "idle"
    /\ num_rows = [sp \in {"train", "validation", "test"} |-> 0]
    /\ lang_i = 1
    /\ ds = None
    /\ split_i = 1
    /\ panx_ch = None
    /\ first_run = None

\* time_pipeline is not running.
TimeIdle ==
    /\ tp_pc = "idle"
    /\ query = ""
    /\ iter = 0
    /\ clock = 0
    /\ slow = 0
    /\ latencies = <<>>
    /\ invocations = <<>>
    /\ timing = None

(***************************************************************************)
(* Actions.                                                                *)
(***************************************************************************)
Init ==
    /\ config \in Configs
    /\ roberta = Pretrained
    /\ classifier \in ClassifierInits(config)
    /\ training = TRUE
    /\ out = NoCall
    /\ calls = <<>>
    /\ TimeIdle
    /\ SizeIdle
    /\ PanxIdle

\* model(**batch): one forward pass; the caller holds its result in out.
Forward ==
    /\ out.status = "none"
    /\ \E args \in Batches(config) : out' \in ForwardResults(args)
    /\ UNCHANGED <<config, roberta, classifier, training, calls>>
    /\ UNCHANGED otherVars

\* The caller is done with the output of the last forward pass.
Discard ==
    /\ out.status # "none"
    /\ out' = NoCall
    /\ UNCHANGED <<config, roberta, classifier, training, calls>>
    /\ UNCHANGED otherVars

\* model.train()
Train ==
    /\ ~training
    /\ training' = TRUE
    /\ UNCHANGED <<config, roberta, classifier, out, calls>>
    /\ UNCHANGED otherVars

\* model.eval()
Eval ==
    /\ training
    /\ training' = FALSE
    /\ UNCHANGED <<config, roberta, classifier, out, calls>>
    /\ UNCHANGED otherVars

Next == Forward \/ Discard \/ Train \/ Eval

Spec == Init /\ [][Next]_vars

(***************************************************************************)
(* Sequences of invocations: every forward pass is appended to calls.      *)
(***************************************************************************)
\* The external training loop's update of the head between forward passes.
OptimizerStep ==
    /\ \E cl \in ClassifierInits(config) : cl # classifier /\ classifier' = cl
    /\ UNCHANGED <<config, roberta, training, out, calls>>
    /\ UNCHANGED otherVars

RepeatBatches ==
    [input_ids : {<<<<5>>>>, <<<<5, 7>>>>},
     attention_mask : {None},
     token_type_ids : {None},
     labels : {None, <<<<0>>>>},
     kwargs : {[output_hidden_states |-> FALSE, output_attentions |-> FALSE]}]

\* Faulty variant: a forward pass that draws the head's weights again.
ForwardLoggedReinitialises ==
    /\ Len(calls) < MaxCalls
    /\ \E args \in RepeatBatches : \E r \in ForwardResults(args) :
          /\ out' = r
          /\ calls' = Append(calls, r)
    /\ classifier' \in ClassifierInits(config)
    /\ UNCHANGED <<config, roberta, training>>
    /\ UNCHANGED otherVars

ForwardLogged ==
    /\ Len(calls) < MaxCalls
    /\ \E args \in RepeatBatches : \E r \in ForwardResults(args) :
          /\ out' = r
          /\ calls' = Append(calls, r)
    /\ UNCHANGED <<config, roberta, classifier, training>>
    /\ UNCHANGED otherVars

NextRepeat == ForwardLogged \/ Train \/ Eval \/ OptimizerStep

SpecRepeat == Init /\ [][NextRepeat]_vars

(***************************************************************************)
(* The end-to-end scenario: one sequence of four tokens, seven labels.     *)
(***************************************************************************)
ScenarioIds == <<<<101, 2045, 2003, 102>>>>

ScenarioLabels == <<<<ignore_index, 3, 5, ignore_index>>>>

ScenarioBatches ==
    [input_ids : {ScenarioIds},
     attention_mask : {<<<<1, 1, 1, 1>>>>},
     token_type_ids : {None},
     labels : {None} \cup {<<<<a, 3, 5, b>>>> : a \in {ignore_index, 0}, b \in {ignore_index, 6}},
     kwargs : {[output_hidden_states |-> FALSE, output_attentions |-> FALSE]}]

InitScenario ==
    /\ config \in ScenarioConfigs
    /\ roberta = Pretrained
    /\ classifier \in ClassifierInits(config)
    /\ training = TRUE
    /\ out = NoCall
    /\ calls = <<>>
    /\ TimeIdle
    /\ SizeIdle
    /\ PanxIdle

ForwardScenario ==
    /\ Len(calls) < MaxScenarioCalls
    /\ \E args \in ScenarioBatches : \E r \in ForwardResults(args) :
          /\ out' = r
          /\ calls' = Append(calls, r)
    /\ UNCHANGED <<config, roberta, classifier, training>>
    /\ UNCHANGED otherVars

NextScenario == ForwardScenario \/ Train \/ Eval

SpecScenario == InitScenario /\ [][NextScenario]_vars

(***************************************************************************)
(* PerformanceBenchmark.time_pipeline.  The clock counts ticks of           *)
(* perf_counter; statistics are exact: the mean is a fraction               *)
(* <<numerator, denominator>> and the standard deviation is                 *)
(* factor * sqrt(radicand) / over.                                          *)
(***************************************************************************)
WarmupRuns == 10

TimedRuns == 100

MsPerSecond == 1000

DefaultQuery == "What is the pin number for my account?"

Queries == {DefaultQuery, "Show me my balance"}

RECURSIVE SeqSum(_, _)
SeqSum(xs, n) == IF n = 0 THEN 0 ELSE xs[n] + SeqSum(xs, n - 1)

\* np.mean(xs) as an exact fraction.
Mean(xs) == <<SeqSum(xs, Len(xs)), Len(xs)>>

\* np.std(xs): sqrt(n * sum(x^2) - sum(x)^2) / n.
Std(xs) ==
    [radicand |-> Len(xs) * SeqSum([k \in 1..Len(xs) |-> xs[k] * xs[k]], Len(xs))
                  - SeqSum(xs, Len(xs)) * SeqSum(xs, Len(xs)),
     over |-> Len(xs)]

\* How long self.pipeline(query) can take now: the first invocation is a
\* cold start, and up to MaxSlow invocations take a tick longer.
UsualTime == IF invocations = <<>> THEN 5 ELSE 2

PipelineTimes == {UsualTime} \cup (IF slow < MaxSlow THEN {UsualTime + 1} ELSE {})

\* self.pipeline(q) taking d ticks, entered at the current clock reading.
Pipeline(q, d, timed) ==
    /\ invocations' = Append(invocations,
                             [query |-> q, begin |-> clock, end |-> clock + d, timed |-> timed])
    /\ slow' = IF d > UsualTime THEN slow + 1 ELSE slow
    /\ clock' = clock + d + 1

InitTime ==
    /\ config = [num_labels |-> 2, hidden_size |-> 1, hidden_dropout_prob |-> 0]
    /\ roberta = Pretrained
    /\ classifier = [weight |-> <<<<1>>, <<-1>>>>, bias |-> <<0, 0>>]
    /\ training = FALSE
    /\ out = NoCall
    /\ calls = <<>>
    /\ TimeIdle
    /\ SizeIdle
    /\ PanxIdle

\* benchmark.time_pipeline(query): latencies = []
TimePipeline ==
    /\ tp_pc = "idle"
    /\ query' \in Queries
    /\ latencies' = <<>>
    /\ iter' = 0
    /\ tp_pc' = "warmup"
    /\ UNCHANGED <<clock, slow, invocations, timing>>
    /\ UNCHANGED <<modelVars, sizeVars, panxVars>>

\* Faulty variant: a warm-up invocation that is timed like the others.
WarmupRunTimed ==
    /\ tp_pc = "warmup"
    /\ iter < WarmupRuns
    /\ \E d \in PipelineTimes :
          /\ Pipeline(query, d, FALSE)
          /\ latencies' = Append(latencies, (clock + d) - clock)
    /\ iter' = iter + 1
    /\ UNCHANGED <<tp_pc, query, timing>>
    /\ UNCHANGED <<modelVars, sizeVars, panxVars>>

\* One pass of "for _ in range(10): _ = self.pipeline(query)".
WarmupRun ==
    /\ tp_pc = "warmup"
    /\ iter < WarmupRuns
    /\ \E d \in PipelineTimes : Pipeline(query, d, FALSE)
    /\ iter' = iter + 1
    /\ UNCHANGED <<tp_pc, query, latencies, timing>>
    /\ UNCHANGED <<modelVars, sizeVars, panxVars>>

\* The warm-up loop ends and the timed loop starts.
WarmupDone ==
    /\ tp_pc = "warmup"
    /\ iter = WarmupRuns
    /\ tp_pc' = "timed"
    /\ iter' = 0
    /\ UNCHANGED <<query, clock, slow, latencies, invocations, timing>>
    /\ UNCHANGED <<modelVars, sizeVars, panxVars>>

\* One pass of the timed loop: read the clock, invoke, read the clock, append.
TimedRun ==
    /\ tp_pc = "timed"
    /\ iter < TimedRuns
    /\ \E d \in PipelineTimes :
          LET start_time == clock
              latency == (clock + d) - start_time
          IN /\ Pipeline(query, d, TRUE)
             /\ latencies' = Append(latencies, latency)
    /\ iter' = iter + 1
    /\ UNCHANGED <<tp_pc, query, timing>>
    /\ UNCHANGED <<modelVars, sizeVars, panxVars>>

\* "Compute run statistics" and return them.
Statistics ==
    /\ tp_pc = "timed"
    /\ iter = TimedRuns
    /\ timing' = [time_avg_ms |-> <<MsPerSecond * Mean(latencies)[1], Mean(latencies)[2]>>,
                  time_std_ms |-> [factor |-> MsPerSecond,
                                   radicand |-> Std(latencies).radicand,
                                   over |-> Std(latencies).over]]
    /\ tp_pc' = "done"
    /\ UNCHANGED <<query, iter, clock, slow, latencies, invocations>>
    /\ UNCHANGED <<modelVars, sizeVars, panxVars>>

NextTime == TimePipeline \/ WarmupRun \/ WarmupDone \/ TimedRun \/ Statistics

SpecTime == InitTime /\ [][NextTime]_vars

(***************************************************************************)
(* PerformanceBenchmark.compute_size.  A file is None (absent) or          *)
(* <<what it holds, its size in bytes>>; size_mb is the exact fraction     *)
(* <<bytes, 1024 * 1024>>.                                                 *)
(***************************************************************************)
FileNames == {"model.pt", "notes.txt"}

\* tmp_path = Path("model.pt")
tmp_path == "model.pt"

\* Files the working directory may hold before the call.
EarlierFiles == {<<"earlier", 2048>>, <<"earlier", 4096>>}

\* Sizes in bytes of the serialised state dict of self.pipeline.model.
StateDictBytes == {524288, 1048576, 3145728}

BytesPerMb == 1024 * 1024

InitSize ==
    /\ config = [num_labels |-> 2, hidden_size |-> 1, hidden_dropout_prob |-> 0]
    /\ roberta = Pretrained
    /\ classifier = [weight |-> <<<<1>>, <<-1>>>>, bias |-> <<0, 0>>]
    /\ training = FALSE
    /\ out = NoCall
    /\ calls = <<>>
    /\ TimeIdle
    /\ PanxIdle
    /\ cs_pc = "idle"
    /\ files \in [FileNames -> {None} \cup EarlierFiles]
    /\ files0 = files
    /\ state_dict = None
    /\ size_result = None

\* benchmark.compute_size(): state_dict = self.pipeline.model.state_dict()
ComputeSize ==
    /\ cs_pc = "idle"
    /\ \E n \in StateDictBytes : state_dict' = <<"state_dict", n>>
    /\ files0' = files
    /\ cs_pc' = "save"
    /\ UNCHANGED <<files, size_result>>
    /\ UNCHANGED <<modelVars, timeVars, panxVars>>

\* torch.save(state_dict, tmp_path) writes the whole file.
Save ==
    /\ cs_pc = "save"
    /\ files' = [files EXCEPT ![tmp_path] = state_dict]
    /\ cs_pc' = "stat"
    /\ UNCHANGED <<files0, state_dict, size_result>>
    /\ UNCHANGED <<modelVars, timeVars, panxVars>>

\* torch.save raises: before the file is opened (the directory is as it was),
\* or after it was opened for writing (the file holds what was written so far).
SaveRaises ==
    /\ cs_pc = "save"
    /\ \/ files' = files
       \/ \E k \in {0, state_dict[2] \div 2} :
             files' = [files EXCEPT ![tmp_path] = <<"partial", k>>]
    /\ cs_pc' = "raised"
    /\ UNCHANGED <<files0, state_dict, size_result>>
    /\ UNCHANGED <<modelVars, timeVars, panxVars>>

\* size_mb = Path(tmp_path).stat().st_size / (1024 * 1024)
Stat ==
    /\ cs_pc = "stat"
    /\ size_result' = [size_mb |-> <<files[tmp_path][2], BytesPerMb>>]
    /\ cs_pc' = "unlink"
    /\ UNCHANGED <<files, files0, state_dict>>
    /\ UNCHANGED <<modelVars, timeVars, panxVars>>

\* tmp_path.unlink(), then print and return {"size_mb": size_mb}.
Unlink ==
    /\ cs_pc = "unlink"
    /\ files' = [files EXCEPT ![tmp_path] = None]
    /\ cs_pc' = "done"
    /\ UNCHANGED <<files0, state_dict, size_result>>
    /\ UNCHANGED <<modelVars, timeVars, panxVars>>

NextSize == ComputeSize \/ Save \/ SaveRaises \/ Stat \/ Unlink

SpecSize == InitSize /\ [][NextSize]_vars

(***************************************************************************)
(* The downsampling loop that builds panx_ch.  A split is the sequence of  *)
(* its rows, numbered 1..n; fractions are in thousandths, and               *)
(* int(frac * n) is the integer part of thousandths * n / 1000 (the float   *)
(* product truncates to the same integer for every n up to 200000).         *)
(***************************************************************************)
langs == <<"de", "fr", "it", "en">>

fracs == <<629, 229, 84, 59>>

\* Faulty variant: the fractions are paired with the languages in reverse.
ZipReversed(xs, ys) ==
    [k \in 1..(IF Len(xs) < Len(ys) THEN Len(xs) ELSE Len(ys)) |-> <<xs[k], ys[Len(ys) + 1 - k]>>]

\* zip(langs, fracs): the pairs in order, as long as the shorter list.
Zip(xs, ys) ==
    [k \in 1..(IF Len(xs) < Len(ys) THEN Len(xs) ELSE Len(ys)) |-> <<xs[k], ys[k]>>]

\* The splits of a PAN-X corpus, in the order "for split in ds" visits them.
SplitNames == <<"train", "validation", "test">>

RowCounts == {0, 1, MaxRows - 7, MaxRows}

\* load_dataset("xtreme", name=f"PAN-X.{lang}"): every split with its rows.
LoadDataset(lang) == [sp \in {SplitNames[k] : k \in 1..Len(SplitNames)} |-> [r \in 1..num_rows[sp] |-> r]]

\* Dataset.shuffle(seed): a permutation of the rows that the seed determines.
Shuffle(rows, seed) ==
    [k \in 1..Len(rows) |-> rows[((Len(rows) - k + seed + Len(rows) \div 2) % Len(rows)) + 1]]

\* Dataset.select(range(n)): the first n rows.
SelectRange(rows, n) == [k \in 1..n |-> rows[k]]

\* int(frac * num_rows)
IntFrac(frac, n) == (frac * n) \div 1000

\* d[key] = value on a dict: the key is added or its value replaced.
SetItem(d, key, value) ==
    [x \in (DOMAIN d) \cup {key} |-> IF x = key THEN value ELSE d[x]]

\* defaultdict(DatasetDict)[key]: a missing key reads as an empty DatasetDict.
GetItem(d, key) == IF key \in DOMAIN d THEN d[key] ELSE [x \in {} |-> <<>>]

EmptyDict == [x \in {} |-> <<>>]

InitPanx ==
    /\ config = [num_labels |-> 2, hidden_size |-> 1, hidden_dropout_prob |-> 0]
    /\ roberta = Pretrained
    /\ classifier = [weight |-> <<<<1>>, <<-1>>>>, bias |-> <<0, 0>>]
    /\ training = FALSE
    /\ out = NoCall
    /\ calls = <<>>
    /\ TimeIdle
    /\ SizeIdle
    /\ px_pc = "idle"
    /\ num_rows \in [{SplitNames[k] : k \in 1..Len(SplitNames)} -> RowCounts]
    /\ lang_i = 1
    /\ ds = None
    /\ split_i = 1
    /\ panx_ch = None
    /\ first_run = None

\* The cell starts: panx_ch = defaultdict(DatasetDict).
StartCell ==
    /\ px_pc = "idle"
    /\ panx_ch' = EmptyDict
    /\ lang_i' = 1
    /\ px_pc' = "langs"
    /\ UNCHANGED <<num_rows, ds, split_i, first_run>>
    /\ UNCHANGED <<modelVars, timeVars, sizeVars>>

\* The next (lang, frac) of the zip: load the monolingual corpus.
LoadCorpus ==
    /\ px_pc = "langs"
    /\ lang_i <= Len(Zip(langs, fracs))
    /\ ds' = LoadDataset(Zip(langs, fracs)[lang_i][1])
    /\ split_i' = 1
    /\ px_pc' = "splits"
    /\ UNCHANGED <<num_rows, lang_i, panx_ch, first_run>>
    /\ UNCHANGED <<modelVars, timeVars, sizeVars>>

\* One pass of "for split in ds": shuffle, downsample, store.
Downsample ==
    /\ px_pc = "splits"
    /\ split_i <= Len(SplitNames)
    /\ LET lang == Zip(langs, fracs)[lang_i][1]
           frac == Zip(langs, fracs)[lang_i][2]
           split == SplitNames[split_i]
           chosen == SelectRange(Shuffle(ds[split], 0), IntFrac(frac, Len(ds[split])))
       IN panx_ch' = SetItem(panx_ch, lang, SetItem(GetItem(panx_ch, lang), split, chosen))
    /\ split_i' = split_i + 1
    /\ UNCHANGED <<px_pc, num_rows, lang_i, ds, first_run>>
    /\ UNCHANGED <<modelVars, timeVars, sizeVars>>

\* The splits of this corpus are done: on to the next language.
NextLang ==
    /\ px_pc = "splits"
    /\ split_i > Len(SplitNames)
    /\ lang_i' = lang_i + 1
    /\ px_pc' = "langs"
    /\ UNCHANGED <<num_rows, ds, split_i, panx_ch, first_run>>
    /\ UNCHANGED <<modelVars, timeVars, sizeVars>>

\* The zip is exhausted: the cell has run.
EndCell ==
    /\ px_pc = "langs"
    /\ lang_i > Len(Zip(langs, fracs))
    /\ px_pc' = "done"
    /\ UNCHANGED <<num_rows, lang_i, ds, split_i, panx_ch, first_run>>
    /\ UNCHANGED <<modelVars, timeVars, sizeVars>>

\* The cell is run once more on the same corpora; the first result is kept.
RunAgain ==
    /\ px_pc = "done"
    /\ first_run = None
    /\ first_run' = <<panx_ch>>
    /\ px_pc' = "idle"
    /\ UNCHANGED <<num_rows, lang_i, ds, split_i, panx_ch>>
    /\ UNCHANGED <<modelVars, timeVars, sizeVars>>

NextPanx == StartCell \/ LoadCorpus \/ Downsample \/ NextLang \/ EndCell \/ RunAgain

SpecPanx == InitPanx /\ [][NextPanx]_vars

(***************************************************************************)
(* Properties of one forward pass (specification Spec).                    *)
(***************************************************************************)
Returned == out.status = "returned"

Raised == out.status = "raised"

BatchShape == Shape2(out.args.input_ids)

LabelsGiven == out.args.labels # None

LabelsFit == LabelsGiven /\ Shape2(out.args.labels) = BatchShape

RECURSIVE SumOver(_, _)
SumOver(f, S) ==
    IF S = {} THEN 0
    ELSE LET x == CHOOSE y \in S : TRUE IN f[x] + SumOver(f, S \ {x})

\* The cross-entropy aggregated over the flattened positions in P:
\* the sum of their losses and how many they are.
LossOver(logits, labels, P) ==
    <<SumOver([n \in P |-> Nll(View(logits)[n], View(labels)[n])], P), Cardinality(P)>>

NotIgnored(labels) == {n \in 1..Len(View(labels)) : View(labels)[n] # ignore_index}

\* What the encoder returns for the arguments and parameters of call c.
EncoderOutputs(c) ==
    RobertaModel(c.params[1], config.hidden_size, c.args.input_ids, c.args.attention_mask,
                 c.args.token_type_ids, c.args.kwargs)

\* The class scores of one token whose (dropped-out) hidden vector is v.
TokenScores(cl, v) ==
    [k \in 1..Len(cl.weight) |->
        SumTo([d \in 1..Len(v) |-> cl.weight[k][d] * v[d]], Len(v)) + cl.bias[k]]

\* The vectors dropout can make of one token's hidden vector h, in any mode.
Dropped(h) ==
    LET scaled(x) == (x * 100) \div (100 - config.hidden_dropout_prob)
    IN {v \in [1..Len(h) -> {0} \cup UNION {{h[d], scaled(h[d])} : d \in 1..Len(h)}] :
           \A d \in 1..Len(h) : v[d] \in {0, h[d], scaled(h[d])}}

\* C1: whenever forward returns, with labels or without, the logits hold one
\* score vector of length num_labels for every token position of the batch:
\* their shape is (B, L, num_labels), and each vector is the classifier applied
\* to a vector dropout can produce from that token's own hidden state.
C1_LogitsShape ==
    Returned =>
        /\ Shape3(out.record.logits) = <<BatchShape[1], BatchShape[2], config.num_labels>>
        /\ \A b \in 1..BatchShape[1] : \A i \in 1..BatchShape[2] :
              /\ Len(out.record.logits[b]) = BatchShape[2]
              /\ Len(out.record.logits[b][i]) = config.num_labels
              /\ out.record.logits[b][i] \in
                    {TokenScores(out.params[2], v) :
                        v \in Dropped(EncoderOutputs(out).last_hidden_state[b][i])}

C1_Witness ==
    /\ Returned
    /\ LabelsGiven
    /\ BatchShape = <<1, 2>>
    /\ Shape3(out.record.logits) = <<1, 2, 2>>

\* C2: a returned loss is absent exactly when no labels were supplied; a call
\* without labels returns (loss absent, logits present); a call with labels of
\* the batch's shape returns a present loss.
C2_LossIffLabels ==
    out.status # "none" =>
        /\ Returned => (out.record.loss = None <=> ~LabelsGiven)
        /\ ~LabelsGiven => Returned /\ out.record.loss = None /\ out.record.logits # None
        /\ LabelsFit => Returned /\ out.record.loss # None

C2_Witness ==
    /\ Returned
    /\ ~LabelsGiven
    /\ out.record.loss = None
    /\ out.record.logits # None

\* C3: with labels supplied, the returned loss is the cross-entropy aggregated
\* over exactly the flattened positions whose label is not the ignore sentinel;
\* no other position's logits enter it.
C3_IgnoredExcluded ==
    Returned /\ LabelsGiven =>
        out.record.loss = LossOver(out.record.logits, out.args.labels, NotIgnored(out.args.labels))

C3_Witness ==
    /\ Returned
    /\ out.args.labels = <<<<ignore_index, 1>>>>
    /\ out.record.loss[2] = 1

\* C5 (the claim as stated): labels whose shape differs from the batch's
\* (B, L) make forward raise.
C5_ShapeMismatchRaises ==
    out.status # "none" /\ LabelsGiven /\ Shape2(out.args.labels) # BatchShape => Raised

Unmasked(mask, labels) ==
    {n \in NotIgnored(labels) : View(mask)[n] = 1}

\* C6 (the claim as stated): with an attention mask and labels, the loss is
\* aggregated over unmasked positions only.
C6_LossOverUnmasked ==
    Returned /\ LabelsFit /\ out.args.attention_mask # None =>
        out.record.loss = LossOver(out.record.logits, out.args.labels,
                                   Unmasked(out.args.attention_mask, out.args.labels))

AllIgnored(labels) == NotIgnored(labels) = {}

\* C7: labels of the batch's shape that are all the ignore sentinel do not make
\* forward raise, and the loss it returns has no contributing position: it is
\* the undefined mean 0/0.
C7_AllIgnored ==
    out.status # "none" /\ LabelsFit /\ AllIgnored(out.args.labels) =>
        Returned /\ out.record.loss = <<0, 0>>

C7_Witness ==
    /\ Returned
    /\ out.args.labels = <<<<ignore_index, ignore_index>>>>
    /\ out.record.loss = <<0, 0>>

\* C8: labels of the batch's shape with at least one position that is not the
\* sentinel give a returned, defined loss (a mean over at least one position)
\* that is not negative.
C8_LossNonNegative ==
    out.status # "none" /\ LabelsFit /\ ~AllIgnored(out.args.labels) =>
        /\ Returned
        /\ out.record.loss # None
        /\ out.record.loss[2] > 0
        /\ out.record.loss[1] >= 0

C8_Witness ==
    /\ Returned
    /\ LabelsFit
    /\ ~AllIgnored(out.args.labels)
    /\ out.record.loss[1] > 0

SameLoss(a, b) == a[2] > 0 /\ b[2] > 0 /\ a[1] * b[2] = b[1] * a[2]

\* C4 (the claim as stated): a call with labels [-100, 3, 5, -100] and a call on
\* the same input with the same logits whose labels differ from these only at
\* the two ignored positions return the same loss.
C4_IgnoredLabelValuesIrrelevant ==
    \A i \in 1..Len(calls) : \A j \in 1..Len(calls) :
        (/\ calls[i].status = "returned" /\ calls[j].status = "returned"
         /\ calls[i].args.labels = ScenarioLabels
         /\ calls[j].args.labels # None
         /\ calls[j].args.labels[1][2] = 3 /\ calls[j].args.labels[1][3] = 5
         /\ calls[i].args.input_ids = calls[j].args.input_ids
         /\ calls[i].record.logits = calls[j].record.logits)
        => SameLoss(calls[i].record.loss, calls[j].record.loss)

\* Logits x and y agree at every position that labels does not ignore.
AgreeWhereCounted(x, y, labels) ==
    \A n \in NotIgnored(labels) : View(x)[n] = View(y)[n]

\* C4 (amended): two calls of the scenario with the same labels, whose logits
\* agree at the positions the labels do not ignore, return the same loss,
\* however their logits differ at the ignored positions.
C4_IgnoredLogitsIrrelevant ==
    \A i \in 1..Len(calls) : \A j \in 1..Len(calls) :
        (/\ calls[i].status = "returned" /\ calls[j].status = "returned"
         /\ calls[i].args.labels # None
         /\ calls[i].args.labels = calls[j].args.labels
         /\ AgreeWhereCounted(calls[i].record.logits, calls[j].record.logits,
                              calls[i].args.labels))
        => calls[i].record.loss = calls[j].record.loss

C4_Witness ==
    /\ Len(calls) = 2
    /\ calls[1].status = "returned" /\ calls[2].status = "returned"
    /\ calls[1].args.labels = ScenarioLabels
    /\ calls[2].args.labels = ScenarioLabels
    /\ calls[1].record.logits[1][4] # calls[2].record.logits[1][4]
    /\ AgreeWhereCounted(calls[1].record.logits, calls[2].record.logits, ScenarioLabels)
    /\ calls[1].record.loss = calls[2].record.loss
    /\ calls[1].record.loss[2] = 2

(***************************************************************************)
(* Properties of sequences of invocations (SpecRepeat).                    *)
(***************************************************************************)
\* Call c ran with dropout disabled: probability 0, or inference mode.
DropoutDisabled(c) == config.hidden_dropout_prob = 0 \/ ~c.training

Parameters == <<config, roberta, classifier>>

\* C11: a step that makes a forward pass, with labels or without, leaves the
\* configuration (num_labels included), the encoder's weights and the
\* classifier's weight and bias as they were; a step that changes any of them
\* is a step of the external training loop, which makes no forward pass.
C11_ForwardKeepsParameters ==
    [][/\ calls' # calls => Parameters' = Parameters
       /\ Parameters' # Parameters => calls' = calls /\ out' = out]_vars

C11_Witness ==
    /\ Len(calls) = 2
    /\ calls[1].status = "returned" /\ calls[2].status = "returned"
    /\ calls[1].args.labels = None
    /\ calls[2].args.labels # None
    /\ calls[1].params = <<roberta, classifier>>
    /\ calls[2].params = <<roberta, classifier>>

(***************************************************************************)
(* Properties of time_pipeline (SpecTime).                                 *)
(***************************************************************************)
\* The clock differences around the invocations m..n of the pipeline.
Durations(m, n) == [k \in 1..(n - m + 1) |-> invocations[m + k - 1].end - invocations[m + k - 1].begin]

\* C12: at every point of a time_pipeline call the pipeline has been invoked
\* on the call's query only, one invocation ending before the next begins, the
\* first WarmupRuns of them untimed and all later ones timed, and the latency
\* list holds one entry per timed invocation, the clock difference around it;
\* when the call returns there were exactly 10 + 100 invocations and the
\* average and standard deviation are those of the 100 timed differences.
C12_WarmupThenTimed ==
    /\ \A k \in 1..Len(invocations) :
          /\ invocations[k].query = query
          /\ invocations[k].timed <=> k > WarmupRuns
          /\ k > 1 => invocations[k - 1].end <= invocations[k].begin
    /\ Len(invocations) <= WarmupRuns => latencies = <<>>
    /\ Len(invocations) > WarmupRuns =>
          latencies = Durations(WarmupRuns + 1, Len(invocations))
    /\ tp_pc = "done" =>
          /\ Len(invocations) = 110
          /\ Len(latencies) = 100
          /\ timing.time_avg_ms = <<1000 * SeqSum(Durations(11, 110), 100), 100>>
          /\ timing.time_std_ms = [factor |-> 1000,
                                   radicand |-> Std(Durations(11, 110)).radicand,
                                   over |-> 100]

C12_Witness ==
    /\ tp_pc = "done"
    /\ Len(latencies) = 100
    /\ invocations[1].end - invocations[1].begin = 5
    /\ \E k \in 1..100 : latencies[k] # latencies[1]
    /\ timing.time_std_ms.radicand > 0

(***************************************************************************)
(* Properties of compute_size (SpecSize).                                  *)
(***************************************************************************)
\* C13 (the claim as stated): when compute_size has ended, by returning or by
\* raising, the working directory holds the files it held when the call
\* began, with the same contents; a returned size_mb is the saved file's
\* byte size over 1024 * 1024.
C13_DirectoryRestored ==
    /\ cs_pc \in {"done", "raised"} => files = files0
    /\ cs_pc = "done" => size_result.size_mb = <<state_dict[2], 1048576>>

(***************************************************************************)
(* Properties of the downsampling loop (SpecPanx).                         *)
(***************************************************************************)
\* Each language's own fraction, in thousandths.
OwnFrac == [l \in {"de", "fr", "it", "en"} |->
               CASE l = "de" -> 629 [] l = "fr" -> 229 [] l = "it" -> 84 [] l = "en" -> 59]

Elements(xs) == {xs[k] : k \in 1..Len(xs)}

\* What panx_ch[l][sp] has to be for a split of n rows.
Downsampled(l, n) ==
    LET k == (OwnFrac[l] * n) \div 1000
    IN [i \in 1..k |-> Shuffle([r \in 1..n |-> r], 0)[i]]

\* C14: every stored panx_ch[lang][split] holds exactly floor(frac * n) rows for
\* the language's own fraction, the first rows of the seed-0 shuffle of the
\* split: rows of the split, none twice, never more than n; when the cell has
\* run, panx_ch has exactly the four languages as keys, each with the split
\* names of its corpus, and a second run gives the same panx_ch.
C14_Downsampled ==
    px_pc # "idle" =>
        /\ \A l \in DOMAIN panx_ch : \A sp \in DOMAIN panx_ch[l] :
              LET stored == panx_ch[l][sp]
                  n == num_rows[sp]
              IN /\ stored = Downsampled(l, n)
                 /\ Len(stored) = (OwnFrac[l] * n) \div 1000
                 /\ Len(stored) <= n
                 /\ Elements(stored) \subseteq 1..n
                 /\ Cardinality(Elements(stored)) = Len(stored)
        /\ px_pc = "done" =>
              /\ DOMAIN panx_ch = {"de", "fr", "it", "en"}
              /\ \A l \in DOMAIN panx_ch : DOMAIN panx_ch[l] = DOMAIN num_rows
              /\ first_run # None => panx_ch = first_run[1]

C14_Witness ==
    /\ px_pc = "done"
    /\ first_run # None
    /\ num_rows["train"] = 17
    /\ Len(panx_ch["de"]["train"]) = 10
    /\ Len(panx_ch["fr"]["train"]) = 3
    /\ Len(panx_ch["it"]["train"]) = 1
    /\ Len(panx_ch["en"]["train"]) = 1
    /\ panx_ch["de"]["train"] # SelectRange([r \in 1..17 |-> r], 10)

====
